---- MODULE Spec2Model ----
(***************************************************************************)
(* PipeRelay (cmds/lshal/PipeRelay.cpp): a pipe whose read end is drained  *)
(* by a background RelayThread into an output stream while a producer      *)
(* writes into the write end.                                              *)
(*                                                                         *)
(* Three contexts interleave: the owning thread (constructor, destructor), *)
(* the RelayThread (threadLoop, called again while it returns true), and   *)
(* the producer holding its own copy of the write end.  Time is abstract:  *)
(* a select() may return 0 whenever the read end is not readable at the    *)
(* instant it returns.                                                     *)
(***************************************************************************)
EXTENDS Integers, Sequences, FiniteSets, TLC

-----------------------------------------------------------------------------
(* Bounds of the model *)

\* total number of bytes the producer writes in the safety specification
MaxBytes == 3
\* number of most recent bytes the histories keep in the liveness specification
Window == 1
\* number of distinct byte values
NumByteValues == 2
\* number of EINTR interruptions of select()/read() over a run
MaxEintr == 1
\* capacity of the kernel pipe buffer (a write blocks when it is full)
PipeCap == 2
\* number of CloseFd calls in the CloseFd-only specification
MaxCloseCalls == 3

Byte == 0 .. (NumByteValues - 1)

-----------------------------------------------------------------------------
(* Program constants *)

\* status_t codes used by the constructor
OK == 0
NO_INIT == -19
\* errno values pipe() can fail with (EMFILE, ENFILE)
EMFILE == 24
ENFILE == 23
\* failure codes of Thread::run
UNKNOWN_ERROR == (-2147483647) - 1
INVALID_OPERATION == -38
\* sizeof(buffer) in threadLoop
BUFFER_SIZE == 1024
\* descriptors pipe() hands out on success
READ_FD == 3
WRITE_FD == 4

PipeErrnos == {EMFILE, ENFILE}
RunResults == {OK, UNKNOWN_ERROR, INVALID_OPERATION}

\* value of both mFds slots before pipe() fills them
InvalidFd == -1

Min(a, b) == IF a < b THEN a ELSE b

-----------------------------------------------------------------------------
VARIABLES
    owner,       \* position of the owning thread (constructor / destructor)
    mInitCheck,  \* PipeRelay::mInitCheck
    mFds,        \* PipeRelay::mFds, a function on {0, 1}
    mThread,     \* PipeRelay::mThread: "null" or "thread"
    mFinished,   \* RelayThread::mFinished
    worker,      \* position of the RelayThread
    mOutStream,  \* bytes written to RelayThread::mOutStream
    mErrStream,  \* diagnostics written to RelayThread::mErrStream
    pipe,        \* bytes in the kernel pipe buffer
    openFds,     \* descriptors open in the relay's process
    closeCalls,  \* number of OS close() calls per descriptor value
    producer,    \* producer's copy of the write end: "none", "open", "closed"
    written,     \* history: every byte the producer wrote, in order
    osError,     \* history: a select()/read() failed with a genuine error
    eintr,       \* history: number of EINTR interruptions so far
    waitFinished,\* history: mFinished when the current select() began
    rewaited,    \* history: a timeout with mFinished false returned true
    closedFirst, \* history: producer had closed its copy when ~PipeRelay began
    pipeRes,     \* history: errno of pipe() in the constructor, 0 on success
    runRes,      \* history: result of Thread::run in the constructor
    dtorLog,     \* history: the destructor's events, in order
    closeLog     \* history: the slots CloseFd was called on (CloseFd-only specification)

vars == <<owner, mInitCheck, mFds, mThread, mFinished, worker, mOutStream,
          mErrStream, pipe, openFds, closeCalls, producer, written, osError,
          eintr, waitFinished, rewaited, closedFirst, pipeRes, runRes,
          dtorLog, closeLog>>

workerVars == <<worker, mOutStream, mErrStream, osError, eintr, waitFinished,
                rewaited>>
producerVars == <<producer, written>>

\* values a descriptor slot can hold, and the valid descriptors among them
FdValues == {-2, InvalidFd, READ_FD, WRITE_FD}
ValidFds == {f \in FdValues : f >= 0}

NoCloses == [f \in ValidFds |-> 0]

\* the last Window elements of a history (liveness specification only)
Keep(s) == IF Len(s) > Window THEN SubSeq(s, Len(s) - Window + 1, Len(s)) ELSE s

Running == {"loop", "select", "timeout", "read"}
Exited == {"EXITED_EOF", "EXITED_ERROR", "EXITED_TIMEOUT_AFTER_FINISH"}

\* the state of the drain worker's state machine
WorkerState == IF worker \in Running THEN "RUNNING" ELSE worker

\* some write end of the pipe is still open
HasWriters == WRITE_FD \in openFds \/ producer = "open"

\* the read end is readable: data is buffered or every write end is closed
Readable == pipe # <<>> \/ ~HasWriters

-----------------------------------------------------------------------------
Init ==
    /\ owner = "ctor"
    /\ mInitCheck = NO_INIT
    /\ mFds = [i \in {0, 1} |-> InvalidFd]
    /\ mThread = "null"
    /\ mFinished = FALSE
    /\ worker = "none"
    /\ mOutStream = <<>>
    /\ mErrStream = <<>>
    /\ pipe = <<>>
    /\ openFds = {}
    /\ closeCalls = NoCloses
    /\ producer = "none"
    /\ written = <<>>
    /\ osError = FALSE
    /\ eintr = 0
    /\ waitFinished = FALSE
    /\ rewaited = FALSE
    /\ closedFirst = FALSE
    /\ pipeRes = 0
    /\ runRes = NO_INIT
    /\ dtorLog = <<>>
    /\ closeLog = <<>>

-----------------------------------------------------------------------------
(* PipeRelay::PipeRelay *)

\* CtorPipeFails without the return: the constructor goes on to create and
\* run a RelayThread on the unset descriptors
CtorPipeFailsNoReturn(e) ==
    /\ owner = "ctor"
    /\ pipeRes' = e
    /\ mThread' = "thread"
    /\ mInitCheck' = OK
    /\ worker' = "loop"
    /\ owner' = "alive"
    /\ UNCHANGED <<mFds, openFds, closeCalls, closedFirst, runRes,
                   dtorLog, closeLog>>
    /\ UNCHANGED <<mFinished, pipe>>
    /\ UNCHANGED <<mOutStream, mErrStream, osError, eintr, waitFinished, rewaited>>
    /\ UNCHANGED producerVars

\* pipe() fails: mInitCheck = -errno; return
CtorPipeFails(e) ==
    /\ owner = "ctor"
    /\ mInitCheck' = 0 - e
    /\ pipeRes' = e
    /\ owner' = "alive"
    /\ UNCHANGED <<mFds, mThread, openFds, closeCalls, closedFirst, runRes,
                   dtorLog, closeLog>>
    /\ UNCHANGED <<mFinished, pipe>>
    /\ UNCHANGED workerVars
    /\ UNCHANGED producerVars

\* CtorPipeOk without the assignment of run()'s result to mInitCheck
CtorPipeOkDropsStatus(r) ==
    /\ owner = "ctor"
    /\ mFds' = [i \in {0, 1} |-> IF i = 0 THEN READ_FD ELSE WRITE_FD]
    /\ openFds' = {READ_FD, WRITE_FD}
    /\ mThread' = "thread"
    /\ mFinished' = FALSE
    /\ mInitCheck' = OK
    /\ runRes' = r
    /\ worker' = IF r = OK THEN "loop" ELSE "notstarted"
    /\ owner' = "alive"
    /\ UNCHANGED <<closeCalls, closedFirst, pipeRes, dtorLog, closeLog>>
    /\ UNCHANGED <<mOutStream, mErrStream, osError, eintr, waitFinished, rewaited>>
    /\ UNCHANGED pipe
    /\ UNCHANGED producerVars

\* CtorPipeOk with RelayThread's initialiser mFinished(true)
CtorPipeOkFinishedSet(r) ==
    /\ owner = "ctor"
    /\ mFds' = [i \in {0, 1} |-> IF i = 0 THEN READ_FD ELSE WRITE_FD]
    /\ openFds' = {READ_FD, WRITE_FD}
    /\ mThread' = "thread"
    /\ mFinished' = TRUE
    /\ mInitCheck' = r
    /\ runRes' = r
    /\ worker' = IF r = OK THEN "loop" ELSE "notstarted"
    /\ owner' = "alive"
    /\ UNCHANGED <<closeCalls, closedFirst, pipeRes, dtorLog, closeLog>>
    /\ UNCHANGED <<mOutStream, mErrStream, osError, eintr, waitFinished, rewaited>>
    /\ UNCHANGED pipe
    /\ UNCHANGED producerVars

\* pipe() succeeds; mThread = new RelayThread(mFds[0], ...); mInitCheck = run()
CtorPipeOk(r) ==
    /\ owner = "ctor"
    /\ mFds' = [i \in {0, 1} |-> IF i = 0 THEN READ_FD ELSE WRITE_FD]
    /\ openFds' = {READ_FD, WRITE_FD}
    /\ mThread' = "thread"
    /\ mFinished' = FALSE
    /\ mInitCheck' = r
    /\ runRes' = r
    /\ worker' = IF r = OK THEN "loop" ELSE "notstarted"
    /\ owner' = "alive"
    /\ UNCHANGED <<closeCalls, closedFirst, pipeRes, dtorLog, closeLog>>
    /\ UNCHANGED <<mOutStream, mErrStream, osError, eintr, waitFinished, rewaited>>
    /\ UNCHANGED pipe
    /\ UNCHANGED producerVars

Constructor ==
    \/ \E e \in PipeErrnos : CtorPipeFails(e)
    \/ \E r \in RunResults : CtorPipeOk(r)

\* PipeRelay::initCheck
initCheck == mInitCheck

\* PipeRelay::fd
fd == mFds[1]

-----------------------------------------------------------------------------
(* PipeRelay::CloseFd and PipeRelay::~PipeRelay *)

\* CloseFd without "*fd = -1"
CloseFdKeepsSlot(i) ==
    IF mFds[i] >= 0
    THEN /\ openFds' = openFds \ {mFds[i]}
         /\ closeCalls' = [closeCalls EXCEPT ![mFds[i]] = @ + 1]
         /\ mFds' = mFds
    ELSE UNCHANGED <<mFds, openFds, closeCalls>>

\* CloseFd(&mFds[i]): if (*fd >= 0) { close(*fd); *fd = -1; }
CloseFd(i) ==
    IF mFds[i] >= 0
    THEN /\ openFds' = openFds \ {mFds[i]}
         /\ closeCalls' = [closeCalls EXCEPT ![mFds[i]] = @ + 1]
         /\ mFds' = [mFds EXCEPT ![i] = -1]
    ELSE UNCHANGED <<mFds, openFds, closeCalls>>

\* RelayThread::setFinished
setFinished == mFinished' = TRUE

\* a destructor that does not wait for the thread
JoinReturnsAtOnce == TRUE

\* Thread::join returns once the thread is not running
Joinable == worker \notin Running

\* DtorCloseWrite closing the read end, mFds[0], in place of the write end
DtorCloseWriteWrongEnd ==
    /\ owner = "alive"
    /\ CloseFd(0)
    /\ closedFirst' = (producer = "closed")
    /\ dtorLog' = Append(dtorLog, "closeWrite")
    /\ owner' = "dtor_thread"
    /\ UNCHANGED <<mInitCheck, mThread, pipeRes, runRes, closeLog>>
    /\ UNCHANGED <<mFinished, pipe>>
    /\ UNCHANGED workerVars
    /\ UNCHANGED producerVars

\* ~PipeRelay: CloseFd(&mFds[1])
DtorCloseWrite ==
    /\ owner = "alive"
    /\ CloseFd(1)
    /\ closedFirst' = (producer = "closed")
    /\ dtorLog' = Append(dtorLog, "closeWrite")
    /\ owner' = "dtor_thread"
    /\ UNCHANGED <<mInitCheck, mThread, pipeRes, runRes, closeLog>>
    /\ UNCHANGED <<mFinished, pipe>>
    /\ UNCHANGED workerVars
    /\ UNCHANGED producerVars

\* DtorSetFinished that also closes the read end to wake the thread
DtorSetFinishedClosesRead ==
    /\ owner = "dtor_thread"
    /\ mThread # "null"
    /\ setFinished
    /\ CloseFd(0)
    /\ dtorLog' = Append(dtorLog, "setFinished")
    /\ owner' = "dtor_join"
    /\ UNCHANGED <<mInitCheck, mThread, closedFirst, pipeRes, runRes, closeLog>>
    /\ UNCHANGED pipe
    /\ UNCHANGED workerVars
    /\ UNCHANGED producerVars

\* DtorSetFinished without the test mThread != nullptr
DtorSetFinishedNoNullCheck ==
    /\ owner = "dtor_thread"
    /\ setFinished
    /\ dtorLog' = Append(dtorLog, "setFinished")
    /\ owner' = "dtor_join"
    /\ UNCHANGED <<mInitCheck, mFds, mThread, openFds, closeCalls, closedFirst,
                   pipeRes, runRes, closeLog>>
    /\ UNCHANGED pipe
    /\ UNCHANGED workerVars
    /\ UNCHANGED producerVars

\* ~PipeRelay: if (mThread != nullptr) mThread->setFinished()
DtorSetFinished ==
    /\ owner = "dtor_thread"
    /\ mThread # "null"
    /\ setFinished
    /\ dtorLog' = Append(dtorLog, "setFinished")
    /\ owner' = "dtor_join"
    /\ UNCHANGED <<mInitCheck, mFds, mThread, openFds, closeCalls, closedFirst,
                   pipeRes, runRes, closeLog>>
    /\ UNCHANGED pipe
    /\ UNCHANGED workerVars
    /\ UNCHANGED producerVars

\* ~PipeRelay: mThread == nullptr, the block is skipped
DtorNoThread ==
    /\ owner = "dtor_thread"
    /\ mThread = "null"
    /\ owner' = "dtor_closeRead"
    /\ UNCHANGED <<mInitCheck, mFds, mThread, openFds, closeCalls, closedFirst,
                   pipeRes, runRes, dtorLog, closeLog>>
    /\ UNCHANGED <<mFinished, pipe>>
    /\ UNCHANGED workerVars
    /\ UNCHANGED producerVars

\* ~PipeRelay: mThread->join() returns
DtorJoin ==
    /\ owner = "dtor_join"
    /\ Joinable
    /\ dtorLog' = Append(dtorLog, "join")
    /\ owner' = "dtor_clear"
    /\ UNCHANGED <<mInitCheck, mFds, mThread, openFds, closeCalls, closedFirst,
                   pipeRes, runRes, closeLog>>
    /\ UNCHANGED <<mFinished, pipe>>
    /\ UNCHANGED workerVars
    /\ UNCHANGED producerVars

\* ~PipeRelay: mThread.clear()
DtorClear ==
    /\ owner = "dtor_clear"
    /\ mThread' = "null"
    /\ owner' = "dtor_closeRead"
    /\ UNCHANGED <<mInitCheck, mFds, openFds, closeCalls, closedFirst,
                   pipeRes, runRes, dtorLog, closeLog>>
    /\ UNCHANGED <<mFinished, pipe>>
    /\ UNCHANGED workerVars
    /\ UNCHANGED producerVars

\* DtorCloseRead without the CloseFd(&mFds[0]) call
DtorCloseReadSkipped ==
    /\ owner = "dtor_closeRead"
    /\ dtorLog' = Append(dtorLog, "closeRead")
    /\ owner' = "destroyed"
    /\ UNCHANGED <<mInitCheck, mFds, mThread, openFds, closeCalls, closedFirst,
                   pipeRes, runRes, closeLog>>
    /\ UNCHANGED <<mFinished, pipe>>
    /\ UNCHANGED workerVars
    /\ UNCHANGED producerVars

\* ~PipeRelay: CloseFd(&mFds[0]), and the destructor returns
DtorCloseRead ==
    /\ owner = "dtor_closeRead"
    /\ CloseFd(0)
    /\ dtorLog' = Append(dtorLog, "closeRead")
    /\ owner' = "destroyed"
    /\ UNCHANGED <<mInitCheck, mThread, closedFirst, pipeRes, runRes, closeLog>>
    /\ UNCHANGED <<mFinished, pipe>>
    /\ UNCHANGED workerVars
    /\ UNCHANGED producerVars

Destructor ==
    \/ DtorCloseWrite
    \/ DtorSetFinished
    \/ DtorNoThread
    \/ DtorJoin
    \/ DtorClear
    \/ DtorCloseRead

-----------------------------------------------------------------------------
(* PipeRelay::RelayThread::threadLoop *)

relayUnchanged ==
    UNCHANGED <<owner, mInitCheck, mFds, mThread, openFds, closeCalls,
                closedFirst, pipeRes, runRes, dtorLog, closeLog>>

\* threadLoop is entered and select(mFd + 1, &set, ..., &timeout) is called
SelectBegin ==
    /\ worker = "loop"
    /\ worker' = "select"
    /\ waitFinished' = mFinished
    /\ UNCHANGED <<mOutStream, mErrStream, osError, eintr, rewaited>>
    /\ UNCHANGED <<mFinished, pipe>>
    /\ relayUnchanged
    /\ UNCHANGED producerVars

\* SelectEintr without TEMP_FAILURE_RETRY: the interruption is res < 0
SelectEintrFails ==
    /\ worker = "select"
    /\ eintr < MaxEintr
    /\ eintr' = eintr + 1
    /\ mErrStream' = Append(mErrStream, "select() failed")
    /\ worker' = "EXITED_ERROR"
    /\ UNCHANGED <<mOutStream, osError, waitFinished, rewaited>>
    /\ UNCHANGED <<mFinished, pipe>>
    /\ relayUnchanged
    /\ UNCHANGED producerVars

\* select() is interrupted (EINTR); TEMP_FAILURE_RETRY calls it again
SelectEintr ==
    /\ worker = "select"
    /\ eintr < MaxEintr
    /\ eintr' = eintr + 1
    /\ UNCHANGED <<worker, mOutStream, mErrStream, osError, waitFinished, rewaited>>
    /\ UNCHANGED <<mFinished, pipe>>
    /\ relayUnchanged
    /\ UNCHANGED producerVars

\* select() fails: res < 0, "select() failed", return false
SelectFails ==
    /\ worker = "select"
    /\ osError' = TRUE
    /\ mErrStream' = Append(mErrStream, "select() failed")
    /\ worker' = "EXITED_ERROR"
    /\ UNCHANGED <<mOutStream, eintr, waitFinished, rewaited>>
    /\ UNCHANGED <<mFinished, pipe>>
    /\ relayUnchanged
    /\ UNCHANGED producerVars

\* select() returns 0: the read end did not become readable within READ_TIMEOUT
SelectTimeout ==
    /\ worker = "select"
    /\ ~Readable
    /\ worker' = "timeout"
    /\ UNCHANGED <<mOutStream, mErrStream, osError, eintr, waitFinished, rewaited>>
    /\ UNCHANGED <<mFinished, pipe>>
    /\ relayUnchanged
    /\ UNCHANGED producerVars

\* select() returns 1 with mFd set: data or end-of-file is available
SelectReady ==
    /\ worker = "select"
    /\ Readable
    /\ worker' = "read"
    /\ UNCHANGED <<mOutStream, mErrStream, osError, eintr, waitFinished, rewaited>>
    /\ UNCHANGED <<mFinished, pipe>>
    /\ relayUnchanged
    /\ UNCHANGED producerVars

\* CheckFinished without the test of mFinished: every timeout returns true
CheckFinishedIgnoresFlag ==
    /\ worker = "timeout"
    /\ worker' = "loop"
    /\ rewaited' = TRUE
    /\ UNCHANGED <<mOutStream, mErrStream, osError, eintr, waitFinished>>
    /\ UNCHANGED <<mFinished, pipe>>
    /\ relayUnchanged
    /\ UNCHANGED producerVars

\* CheckFinished without the diagnostic in the mFinished branch
CheckFinishedSilent ==
    /\ worker = "timeout"
    /\ IF mFinished
       THEN /\ worker' = "EXITED_TIMEOUT_AFTER_FINISH"
            /\ rewaited' = rewaited
       ELSE /\ worker' = "loop"
            /\ rewaited' = TRUE
    /\ UNCHANGED <<mOutStream, mErrStream, osError, eintr, waitFinished>>
    /\ UNCHANGED <<mFinished, pipe>>
    /\ relayUnchanged
    /\ UNCHANGED producerVars

\* CheckFinished without the test of mFinished: every timeout returns false
CheckFinishedExitsAlways ==
    /\ worker = "timeout"
    /\ mErrStream' = Append(mErrStream, "output may be truncated")
    /\ worker' = "EXITED_TIMEOUT_AFTER_FINISH"
    /\ UNCHANGED <<mOutStream, osError, eintr, waitFinished, rewaited>>
    /\ UNCHANGED <<mFinished, pipe>>
    /\ relayUnchanged
    /\ UNCHANGED producerVars

\* res == 0: if (mFinished) { "output may be truncated"; return false } return true
CheckFinished ==
    /\ worker = "timeout"
    /\ IF mFinished
       THEN /\ mErrStream' = Append(mErrStream, "output may be truncated")
            /\ worker' = "EXITED_TIMEOUT_AFTER_FINISH"
            /\ rewaited' = rewaited
       ELSE /\ mErrStream' = mErrStream
            /\ worker' = "loop"
            /\ rewaited' = TRUE
    /\ UNCHANGED <<mOutStream, osError, eintr, waitFinished>>
    /\ UNCHANGED <<mFinished, pipe>>
    /\ relayUnchanged
    /\ UNCHANGED producerVars

\* read() is interrupted (EINTR); TEMP_FAILURE_RETRY calls it again
ReadEintr ==
    /\ worker = "read"
    /\ eintr < MaxEintr
    /\ eintr' = eintr + 1
    /\ UNCHANGED <<worker, mOutStream, mErrStream, osError, waitFinished, rewaited>>
    /\ UNCHANGED <<mFinished, pipe>>
    /\ relayUnchanged
    /\ UNCHANGED producerVars

\* ReadFails without the diagnostic (the n < 0 test left out)
ReadFailsSilent ==
    /\ worker = "read"
    /\ osError' = TRUE
    /\ worker' = "EXITED_ERROR"
    /\ UNCHANGED <<mOutStream, mErrStream, eintr, waitFinished, rewaited>>
    /\ UNCHANGED <<mFinished, pipe>>
    /\ relayUnchanged
    /\ UNCHANGED producerVars

\* read() fails: n < 0, "read() failed", return false
ReadFails ==
    /\ worker = "read"
    /\ osError' = TRUE
    /\ mErrStream' = Append(mErrStream, "read() failed")
    /\ worker' = "EXITED_ERROR"
    /\ UNCHANGED <<mOutStream, eintr, waitFinished, rewaited>>
    /\ UNCHANGED <<mFinished, pipe>>
    /\ relayUnchanged
    /\ UNCHANGED producerVars

\* read() returns 0: the pipe is empty and every write end is closed
ReadEof ==
    /\ worker = "read"
    /\ pipe = <<>>
    /\ ~HasWriters
    /\ worker' = "EXITED_EOF"
    /\ UNCHANGED <<mOutStream, mErrStream, osError, eintr, waitFinished, rewaited>>
    /\ UNCHANGED <<mFinished, pipe>>
    /\ relayUnchanged
    /\ UNCHANGED producerVars

\* Relayed with write(buffer, n - 1): the last byte of each read is dropped
RelayedDropsByte(n) == mOutStream \o SubSeq(pipe, 1, n - 1)

\* the bytes mOutStream holds after write(buffer, n) of the pipe's first n bytes
Relayed(n) == mOutStream \o SubSeq(pipe, 1, n)

\* ReadData with mFinished tested before the read: once finished, the thread
\* gives up although the read end is readable
ReadDataChecksFinished(n) ==
    /\ worker = "read"
    /\ n \in 1 .. Min(Len(pipe), BUFFER_SIZE)
    /\ IF mFinished
       THEN /\ mErrStream' = Append(mErrStream, "output may be truncated")
            /\ worker' = "EXITED_TIMEOUT_AFTER_FINISH"
            /\ UNCHANGED <<mOutStream, pipe>>
       ELSE /\ mOutStream' = mOutStream \o SubSeq(pipe, 1, n)
            /\ pipe' = SubSeq(pipe, n + 1, Len(pipe))
            /\ worker' = "loop"
            /\ mErrStream' = mErrStream
    /\ UNCHANGED <<osError, eintr, waitFinished, rewaited>>
    /\ UNCHANGED mFinished
    /\ relayUnchanged
    /\ UNCHANGED producerVars

\* read() returns n > 0 bytes (at most sizeof(buffer), possibly fewer than are
\* buffered); mOutStream.write(buffer, n); return true
ReadData(n) ==
    /\ worker = "read"
    /\ n \in 1 .. Min(Len(pipe), BUFFER_SIZE)
    /\ mOutStream' = Relayed(n)
    /\ pipe' = SubSeq(pipe, n + 1, Len(pipe))
    /\ worker' = "loop"
    /\ UNCHANGED <<mErrStream, osError, eintr, waitFinished, rewaited>>
    /\ UNCHANGED mFinished
    /\ relayUnchanged
    /\ UNCHANGED producerVars

\* the same read with the output history cut to its last Window bytes
ReadDataOn(n) ==
    /\ worker = "read"
    /\ n \in 1 .. Min(Len(pipe), BUFFER_SIZE)
    /\ mOutStream' = Keep(Relayed(n))
    /\ pipe' = SubSeq(pipe, n + 1, Len(pipe))
    /\ worker' = "loop"
    /\ UNCHANGED <<mErrStream, osError, eintr, waitFinished, rewaited>>
    /\ UNCHANGED mFinished
    /\ relayUnchanged
    /\ UNCHANGED producerVars

-----------------------------------------------------------------------------
(* The producer: the holder of a copy of the descriptor fd() returned *)

\* the caller, having seen initCheck() == OK, hands fd() to the producer
ProducerOpen ==
    /\ owner = "alive"
    /\ initCheck = OK
    /\ fd >= 0
    /\ producer = "none"
    /\ producer' = "open"
    /\ UNCHANGED written
    /\ UNCHANGED <<mFinished, pipe>>
    /\ relayUnchanged
    /\ UNCHANGED workerVars

\* the producer writes one byte (the write blocks while the pipe is full and
\* fails once the read end is closed)
ProducerWrite(b) ==
    /\ producer = "open"
    /\ READ_FD \in openFds
    /\ Len(pipe) < PipeCap
    /\ Len(written) < MaxBytes
    /\ pipe' = Append(pipe, b)
    /\ written' = Append(written, b)
    /\ UNCHANGED producer
    /\ UNCHANGED mFinished
    /\ relayUnchanged
    /\ UNCHANGED workerVars

\* the same write by a producer that never stops, with the history of written
\* bytes cut to its last Window bytes
ProducerWriteOn(b) ==
    /\ producer = "open"
    /\ READ_FD \in openFds
    /\ Len(pipe) < PipeCap
    /\ pipe' = Append(pipe, b)
    /\ written' = Keep(Append(written, b))
    /\ UNCHANGED producer
    /\ UNCHANGED mFinished
    /\ relayUnchanged
    /\ UNCHANGED workerVars

\* the producer closes its copy of the write end
ProducerClose ==
    /\ producer = "open"
    /\ producer' = "closed"
    /\ UNCHANGED written
    /\ UNCHANGED <<mFinished, pipe>>
    /\ relayUnchanged
    /\ UNCHANGED workerVars

-----------------------------------------------------------------------------
(* Specifications *)

\* steps of threadLoop other than the reads
ThreadLoopStep ==
    \/ SelectBegin
    \/ SelectEintr
    \/ SelectFails
    \/ SelectTimeout
    \/ SelectReady
    \/ CheckFinished
    \/ ReadEintr
    \/ ReadFails
    \/ ReadEof

Next ==
    \/ Constructor
    \/ Destructor
    \/ ThreadLoopStep
    \/ \E n \in 1 .. MaxBytes : ReadData(n)
    \/ ProducerOpen
    \/ \E b \in Byte : ProducerWrite(b)
    \/ ProducerClose

Spec == Init /\ [][Next]_vars

\* The liveness specification: the producer may write for ever, the RelayThread
\* and the destroying thread are scheduled fairly, a select() that stays
\* unreadable times out, and no OS error or interruption is forced to happen.
NextLive ==
    \/ Constructor
    \/ Destructor
    \/ ThreadLoopStep
    \/ \E n \in 1 .. PipeCap : ReadDataOn(n)
    \/ ProducerOpen
    \/ \E b \in Byte : ProducerWriteOn(b)
    \/ ProducerClose

ThreadProgress ==
    \/ SelectBegin
    \/ SelectTimeout
    \/ SelectReady
    \/ CheckFinished
    \/ ReadEof
    \/ \E n \in 1 .. PipeCap : ReadDataOn(n)

DtorProgress ==
    \/ DtorSetFinished
    \/ DtorNoThread
    \/ DtorJoin
    \/ DtorClear
    \/ DtorCloseRead

SpecLive ==
    /\ Init
    /\ [][NextLive]_vars
    /\ WF_vars(ThreadProgress)
    /\ WF_vars(DtorProgress)

\* The CloseFd-only specification: CloseFd is called, in any order and any
\* number of times, on two slots holding any values a slot can hold.
InitClose ==
    /\ owner = "closing"
    /\ mInitCheck = NO_INIT
    /\ mFds \in {f \in [{0, 1} -> FdValues] : f[0] >= 0 => f[0] # f[1]}
    /\ mThread = "null"
    /\ mFinished = FALSE
    /\ worker = "none"
    /\ mOutStream = <<>>
    /\ mErrStream = <<>>
    /\ pipe = <<>>
    /\ openFds = {mFds[i] : i \in {0, 1}} \cap ValidFds
    /\ closeCalls = NoCloses
    /\ producer = "none"
    /\ written = <<>>
    /\ osError = FALSE
    /\ eintr = 0
    /\ waitFinished = FALSE
    /\ rewaited = FALSE
    /\ closedFirst = FALSE
    /\ pipeRes = 0
    /\ runRes = NO_INIT
    /\ dtorLog = <<>>
    /\ closeLog = <<>>

CloseFdCall(i) ==
    /\ owner = "closing"
    /\ Len(closeLog) < MaxCloseCalls
    /\ CloseFd(i)
    /\ closeLog' = Append(closeLog, i)
    /\ UNCHANGED <<owner, mInitCheck, mThread, closedFirst, pipeRes, runRes, dtorLog>>
    /\ UNCHANGED <<mFinished, pipe>>
    /\ UNCHANGED workerVars
    /\ UNCHANGED producerVars

NextClose == \E i \in {0, 1} : CloseFdCall(i)

SpecClose == InitClose /\ [][NextClose]_vars
-----------------------------------------------------------------------------
(* Properties *)

IsPrefix(s, t) == Len(s) <= Len(t) /\ SubSeq(t, 1, Len(s)) = s

DtorOrder == <<"closeWrite", "setFinished", "join", "closeRead">>

\* ~PipeRelay has been entered
DtorStarted == owner \in {"dtor_thread", "dtor_join", "dtor_clear",
                          "dtor_closeRead", "destroyed"}

\* C1: no data loss across finish.  When the producer wrote its bytes and
\* closed its copy of the write end before ~PipeRelay began, and no select()
\* or read() failed, mOutStream holds every byte written by the time the
\* destructor has returned.
C1_NoDataLossAcrossFinish ==
    (owner = "destroyed" /\ closedFirst /\ ~osError) => mOutStream = written

\* C2: order preservation.  In every state the bytes in mOutStream followed by
\* the bytes still unread in the pipe are exactly the bytes the producer has
\* written, in write order; so mOutStream is a prefix of what was written.
C2_OrderPreserved ==
    /\ mOutStream \o pipe = written
    /\ IsPrefix(mOutStream, written)

C2_Witness ==
    /\ mOutStream = <<0, 1>>
    /\ pipe = <<1>>
    /\ worker = "loop"

\* C3: join before close.  Whenever the relay has closed the read end, the
\* RelayThread has exited or never ran; it is never inside select() or read()
\* on a read end that is closed.
C3_JoinBeforeClose ==
    /\ closeCalls[READ_FD] > 0 => worker \in Exited \cup {"notstarted"}
    /\ worker \in Running => READ_FD \in openFds

C3_Witness ==
    /\ closeCalls[READ_FD] = 1
    /\ worker = "EXITED_TIMEOUT_AFTER_FINISH"
    /\ producer = "open"

\* C4: destruction ordering.  For a relay whose RelayThread was created, the
\* destructor's events happen in the order: write end closed, mFinished set,
\* join returned, read end closed.  mFinished is never true while the relay's
\* write end is open, join returns only after mFinished is set, and the read
\* end is closed only after join has returned.
C4_DestructionOrder ==
    (owner # "ctor" /\ pipeRes = 0) =>
        /\ IsPrefix(dtorLog, DtorOrder)
        /\ mFinished => (WRITE_FD \notin openFds /\ closeCalls[WRITE_FD] = 1)
        /\ Len(dtorLog) >= 3 => mFinished
        /\ closeCalls[READ_FD] > 0 => dtorLog = DtorOrder

C4_Witness ==
    /\ owner = "destroyed"
    /\ dtorLog = DtorOrder
    /\ worker = "EXITED_EOF"

\* C5 as claimed: for any producer, once ~PipeRelay has started it finishes.
C5_DestructionAlwaysCompletes == DtorStarted ~> (owner = "destroyed")

\* C5 as amended: once ~PipeRelay has started it finishes, for every producer
\* that closes its copy of the write end or stops writing, and for every exit
\* cause of the RelayThread; only a producer that writes for ever keeps the
\* destructor in join.
C5_CompletesUnlessWritingForever ==
    \/ []<><<\E b \in Byte : ProducerWriteOn(b)>>_vars
    \/ DtorStarted ~> (owner = "destroyed")

C5_Witness ==
    /\ owner = "destroyed"
    /\ producer = "open"
    /\ worker = "EXITED_TIMEOUT_AFTER_FINISH"
    /\ written # <<>>
    /\ mOutStream # <<>>

\* C6: clean shutdown after producer close.  When the producer closed its copy
\* before ~PipeRelay began and no select() or read() failed, the RelayThread
\* exits only in EXITED_EOF and mErrStream receives no diagnostic.
C6_CleanShutdownAfterClose ==
    (closedFirst /\ ~osError) =>
        /\ worker \in Exited => worker = "EXITED_EOF"
        /\ mErrStream = <<>>

\* C7: two-phase finish.  The RelayThread exits by timeout only on the timeout
\* of a select() that began after mFinished became true.
C7_FullWaitAfterFinish ==
    worker = "EXITED_TIMEOUT_AFTER_FINISH" => waitFinished

\* C8: construction failure isolation.  When pipe() failed in the constructor,
\* initCheck() is the negated errno (neither OK nor NO_INIT), no RelayThread is
\* created or run, and nothing is ever written to mOutStream or mErrStream.
C8_ConstructionFailureIsolated ==
    (owner # "ctor" /\ pipeRes # 0) =>
        /\ initCheck = 0 - pipeRes
        /\ initCheck \notin {OK, NO_INIT}
        /\ mThread = "null"
        /\ worker = "none"
        /\ mOutStream = <<>>
        /\ mErrStream = <<>>

C8_Witness ==
    /\ owner = "destroyed"
    /\ pipeRes = EMFILE
    /\ initCheck = 0 - EMFILE

\* C9: status reflects both construction steps.  After the constructor,
\* initCheck() is OK exactly when pipe() and Thread::run both succeeded; when
\* pipe() succeeded and run failed, initCheck() is run's failure code, join
\* does not block, and the destroyed relay has closed both pipe ends.
C9_StatusReflectsBothSteps ==
    owner # "ctor" =>
        /\ (initCheck = OK) <=> (pipeRes = 0 /\ runRes = OK)
        /\ (pipeRes = 0 /\ runRes # OK) =>
              /\ initCheck = runRes
              /\ owner = "dtor_join" => Joinable
              /\ owner = "destroyed" =>
                    /\ openFds = {}
                    /\ closeCalls[READ_FD] = 1
                    /\ closeCalls[WRITE_FD] = 1

C9_Witness ==
    /\ owner = "destroyed"
    /\ pipeRes = 0
    /\ runRes = UNKNOWN_ERROR
    /\ worker = "notstarted"

\* C10: idempotent close.  A CloseFd call on a slot holding a negative value
\* makes no OS close and leaves both slots unchanged; a call on a slot holding
\* a valid descriptor closes that descriptor once and sets the slot to -1; so
\* over any sequence of calls no descriptor is closed more than once.
C10_IdempotentClose ==
    [][Len(closeLog') = Len(closeLog) + 1 =>
         LET i == closeLog'[Len(closeLog')]
             f == mFds[i]
         IN  /\ f < 0 => /\ mFds' = mFds
                         /\ closeCalls' = closeCalls
                         /\ openFds' = openFds
             /\ f >= 0 => /\ mFds' = [mFds EXCEPT ![i] = -1]
                          /\ closeCalls' = [closeCalls EXCEPT ![f] = @ + 1]
                          /\ openFds' = openFds \ {f}
             /\ \A g \in ValidFds : closeCalls'[g] <= 1]_vars

C10_Witness ==
    /\ Len(closeLog) = MaxCloseCalls
    /\ closeLog[1] = 1
    /\ closeLog[2] = 1
    /\ closeCalls[WRITE_FD] = 1
    /\ mFds[1] = -1

TruncationDiagnostic == "output may be truncated"

\* C11: truncation scenario.  When the producer never closes its copy of the
\* write end and no select() or read() fails, a RelayThread that exits during
\* destruction exits in EXITED_TIMEOUT_AFTER_FINISH with exactly one truncation
\* diagnostic in mErrStream, and when the destructor has returned mOutStream
\* is a prefix, possibly empty, of the bytes written.
C11_TruncationScenario ==
    /\ (DtorStarted /\ producer = "open" /\ ~osError /\ worker \in Exited) =>
          /\ worker = "EXITED_TIMEOUT_AFTER_FINISH"
          /\ mErrStream = <<TruncationDiagnostic>>
    /\ (owner = "destroyed" /\ producer = "open" /\ ~osError) =>
          /\ worker = "EXITED_TIMEOUT_AFTER_FINISH"
          /\ IsPrefix(mOutStream, written)

C11_Witness ==
    /\ owner = "destroyed"
    /\ producer = "open"
    /\ written = <<0, 1>>
    /\ mOutStream = <<0>>
    /\ mErrStream = <<TruncationDiagnostic>>

\* C12: a timeout before finish never stops the thread.  A timeout handled
\* while mFinished is false returns true: the thread goes back to wait and
\* neither stream changes.  So in EXITED_TIMEOUT_AFTER_FINISH mFinished is
\* true, the destructor having closed the relay's write end before.
C12_TimeoutBeforeFinishRewaits ==
    /\ [][(worker = "timeout" /\ ~mFinished /\ worker' # worker) =>
             /\ worker' = "loop"
             /\ mErrStream' = mErrStream
             /\ mOutStream' = mOutStream]_vars
    /\ [](worker = "EXITED_TIMEOUT_AFTER_FINISH" =>
             /\ mFinished
             /\ WRITE_FD \notin openFds
             /\ DtorStarted)

C12_Witness ==
    /\ rewaited
    /\ ~mFinished
    /\ worker = "select"
    /\ mErrStream = <<>>

\* C13 as claimed: the thread never exits by timeout at a moment when unread
\* bytes are in the pipe.
C13_NoTimeoutExitWithUnreadBytes ==
    [][(worker' = "EXITED_TIMEOUT_AFTER_FINISH" /\ worker # worker') =>
          pipe = <<>>]_vars

\* C13 as amended: mFinished is consulted only after an observed timeout.  A
\* read() of a readable, non-empty pipe that does not fail appends the bytes
\* read to mOutStream and returns true whether mFinished is true or false; the
\* thread exits by timeout only from the timeout branch, and it enters that
\* branch only when the pipe was empty at the instant select() returned.
C13_FinishedConsultedAfterTimeout ==
    /\ [][(worker = "read" /\ pipe # <<>> /\ worker' \notin {"read", "EXITED_ERROR"}) =>
             /\ worker' = "loop"
             /\ mOutStream' \o pipe' = mOutStream \o pipe
             /\ Len(mOutStream') > Len(mOutStream)
             /\ mErrStream' = mErrStream]_vars
    /\ [][(worker' = "EXITED_TIMEOUT_AFTER_FINISH" /\ worker # worker') =>
             worker = "timeout"]_vars
    /\ [][(worker' = "timeout" /\ worker # worker') =>
             (pipe = <<>> /\ pipe' = <<>>)]_vars

C13_Witness ==
    /\ waitFinished
    /\ worker = "loop"
    /\ mOutStream = <<0, 1>>
    /\ pipe = <<>>

\* C14: diagnostics match the exit cause.  mErrStream receives at most one
\* diagnostic: "select() failed" on exit by a failed select(), "read() failed"
\* on exit by a failed read(), the truncation diagnostic on exit by timeout
\* after finish, and none on exit by end-of-file or while the thread runs; a
\* failed select() or read() appends nothing to mOutStream.
C14_DiagnosticsMatchExitCause ==
    /\ [](/\ Len(mErrStream) <= 1
          /\ worker \in Running \cup {"none", "notstarted", "EXITED_EOF"} =>
                mErrStream = <<>>
          /\ worker = "EXITED_TIMEOUT_AFTER_FINISH" =>
                mErrStream = <<TruncationDiagnostic>>
          /\ worker = "EXITED_ERROR" =>
                mErrStream \in {<<"select() failed">>, <<"read() failed">>})
    /\ [][(worker' = "EXITED_ERROR" /\ worker # worker') =>
             /\ mOutStream' = mOutStream
             /\ worker = "select" => mErrStream' = <<"select() failed">>
             /\ worker = "read" => mErrStream' = <<"read() failed">>]_vars

C14_Witness ==
    /\ worker = "EXITED_ERROR"
    /\ mErrStream = <<"read() failed">>
    /\ mOutStream = <<0>>
    /\ pipe = <<1>>

\* C15: mFinished is monotonic and has one writer.  It is false from the
\* construction of the RelayThread until the destructor calls setFinished; it
\* changes only in that step of the destroying thread, never in a step of
\* threadLoop; and once true it stays true.
C15_FinishedMonotonicSingleWriter ==
    /\ [](owner \in {"ctor", "alive", "dtor_thread"} => ~mFinished)
    /\ [][mFinished => mFinished']_vars
    /\ [][mFinished' # mFinished =>
             /\ owner = "dtor_thread"
             /\ owner' = "dtor_join"
             /\ UNCHANGED workerVars]_vars

C15_Witness ==
    /\ mFinished
    /\ owner = "destroyed"
    /\ worker = "EXITED_EOF"
    /\ rewaited

\* C16: setFinished changes only mFinished.  The step that sets it leaves the
\* thread's position (a select() or read() in progress), the pipe, both
\* descriptors and both streams as they were.
C16_SetFinishedFrame ==
    [][mFinished' # mFinished =>
          /\ worker' = worker
          /\ pipe' = pipe
          /\ mFds' = mFds
          /\ openFds' = openFds
          /\ closeCalls' = closeCalls
          /\ mOutStream' = mOutStream
          /\ mErrStream' = mErrStream
          /\ mThread' = mThread
          /\ UNCHANGED producerVars]_vars

C16_Witness ==
    /\ mFinished
    /\ owner = "dtor_join"
    /\ worker = "select"
    /\ ~waitFinished
    /\ pipe # <<>>
    /\ READ_FD \in openFds

\* C17: exits of the RelayThread are terminal.  Once it has exited its
\* position never changes and neither stream is appended to again, whatever
\* the producer writes afterwards; so both streams are unchanged in every
\* step after the destructor has returned.
C17_ExitsAreTerminal ==
    /\ [][(worker \in Exited) =>
             /\ worker' = worker
             /\ mOutStream' = mOutStream
             /\ mErrStream' = mErrStream]_vars
    /\ [][(owner = "destroyed") =>
             /\ worker' = worker
             /\ mOutStream' = mOutStream
             /\ mErrStream' = mErrStream]_vars

C17_Witness ==
    /\ worker = "EXITED_TIMEOUT_AFTER_FINISH"
    /\ owner = "dtor_join"
    /\ Len(pipe) = PipeCap
    /\ producer = "open"

\* C18: an interruption by a signal is transparent.  A select() or read()
\* interrupted with EINTR is called again: the thread keeps its position in
\* that call, no diagnostic is written, nothing is appended to mOutStream,
\* the pipe is not read, and the interruption is not handled as a timeout.
C18_InterruptionTransparent ==
    [][eintr' # eintr =>
          /\ worker \in {"select", "read"}
          /\ worker' = worker
          /\ mErrStream' = mErrStream
          /\ mOutStream' = mOutStream
          /\ pipe' = pipe
          /\ UNCHANGED <<osError, rewaited, waitFinished, mFinished>>]_vars

C18_Witness ==
    /\ eintr = MaxEintr
    /\ mFinished
    /\ waitFinished
    /\ worker = "select"
    /\ mErrStream = <<>>

C20_NoLeakNoStaleHandle ==
    (owner # "ctor" /\ pipeRes = 0) =>
        /\ owner = "alive" =>
              /\ fd = WRITE_FD
              /\ {READ_FD, WRITE_FD} \subseteq openFds
              /\ \A f \in ValidFds : closeCalls[f] = 0
        /\ owner = "destroyed" =>
              /\ mFds[0] = -1
              /\ mFds[1] = -1
              /\ fd = -1
              /\ openFds = {}
              /\ closeCalls[READ_FD] = 1
              /\ closeCalls[WRITE_FD] = 1
              /\ mThread = "null"

C20_Witness ==
    /\ owner = "destroyed"
    /\ pipeRes = 0
    /\ runRes = OK
    /\ closeCalls[READ_FD] = 1
    /\ producer = "closed"
====
